---- MODULE Spec2Model ----
(***************************************************************************)
(* Evaluation pipeline of the presentation-exchange library: the URI       *)
(* evaluation handler (lib/evaluation/handlers/uriEvaluationHandler.ts)    *)
(* and the limit-disclosure evaluation handler, both working on one        *)
(* shared evaluation context (result log, submission, presentation).       *)
(***************************************************************************)
EXTENDS Integers, Sequences, FiniteSets, TLC

(* ---------------------------------------------------------------------- *)
(* Bounds of the model                                                     *)
(* ---------------------------------------------------------------------- *)
MaxDescriptors == 2
MaxCreds == 2
MaxCalls == 2
MaxList == 6

(* ---------------------------------------------------------------------- *)
(* JSON values.  Every value is a record of the same shape so that any two *)
(* values can be compared: t is the JavaScript type, s the characters of a *)
(* string, kv the properties of an object or the elements of an array.     *)
(* Property names and array indices are path segments.                     *)
(* ---------------------------------------------------------------------- *)
Root == [k |-> "root", s |-> "$", n |-> 0]
Key(name) == [k |-> "key", s |-> name, n |-> 0]
Idx(i) == [k |-> "idx", s |-> "", n |-> i]
Wild == [k |-> "wild", s |-> "*", n |-> 0]

NoProps == [x \in {} |-> x]
Undefined == [t |-> "undefined", s |-> <<>>, kv |-> NoProps]
Str(chars) == [t |-> "string", s |-> chars, kv |-> NoProps]
Obj(props) == [t |-> "object", s |-> <<>>, kv |-> props]
Arr(elems) == [t |-> "array", s |-> <<>>, kv |-> [g \in {Idx(i - 1) : i \in DOMAIN elems} |-> elems[g.n + 1]]]

\* value[segment] of JavaScript: undefined when the property is missing
Get(value, seg) == IF seg \in DOMAIN value.kv THEN value.kv[seg] ELSE Undefined
\* value[segment] = v of JavaScript
Put(value, seg, v) == [value EXCEPT !.kv = (seg :> v) @@ value.kv]
\* typeof segment === 'string'
IsStringSeg(seg) == seg.k = "key"
\* Array.isArray
IsArray(value) == value.t = "array"
\* array.length: one more than the highest index in use
Length(value) == IF DOMAIN value.kv = {} THEN 0 ELSE 1 + (CHOOSE m \in {g.n : g \in DOMAIN value.kv} : \A g \in DOMAIN value.kv : g.n <= m)
\* truthiness of a value used as a condition
Truthy(value) == value.t \in {"object", "array"} \/ (value.t = "string" /\ value.s # <<>>)

RECURSIVE GetPath(_, _, _)
\* the value found by following path[i..] from value
GetPath(value, path, i) == IF i > Len(path) THEN value ELSE GetPath(Get(value, path[i]), path, i + 1)

(* ---------------------------------------------------------------------- *)
(* Hashlink detection: the two regular expressions, character by character *)
(* ---------------------------------------------------------------------- *)
Lower == {"a","b","c","d","e","f","g","h","i","j","k","l","m","n","o","p","q","r","s","t","u","v","w","x","y","z"}
Upper == {"A","B","C","D","E","F","G","H","I","J","K","L","M","N","O","P","Q","R","S","T","U","V","W","X","Y","Z"}
Digit == {"0","1","2","3","4","5","6","7","8","9"}
AlNum == Lower \cup Upper \cup Digit
HostChars == AlNum \cup {"-","@",":","%",".","_","+","~","#","="}
TldChars == AlNum \cup {"(",")"}
TailChars == AlNum \cup {"-","(",")","@",":","%","_","+",".","~","#","?","&","/","="}
WordChars == AlNum \cup {"_"}

\* the literal lit occurs in url at position p
Lit(url, p, lit) == p + Len(lit) - 1 <= Len(url) /\ \A x \in 1..Len(lit) : url[p + x - 1] = lit[x]
\* url[p..q] is non-empty when requested and made of characters of class
Run(url, p, q, class) == q <= Len(url) /\ \A x \in p..q : url[x] \in class
\* \b between url[p-1] and url[p]
WordBoundary(url, p) == (p > 1 /\ url[p - 1] \in WordChars) # (p <= Len(url) /\ url[p] \in WordChars)

\* /hl:[a-zA-Z0-9]+:[a-zA-Z0-9]+/ matches somewhere in url
HASHLINK_URL_ENCODED_REGEX(url) ==
  \E p \in 1..Len(url) :
    /\ Lit(url, p, <<"h","l",":">>)
    /\ \E q \in (p + 3)..Len(url) :
         /\ Run(url, p + 3, q, AlNum)
         /\ Lit(url, q + 1, <<":">>)
         /\ Run(url, q + 2, q + 2, AlNum)

\* /https*?:\/\/(www\.)?[-a-zA-Z0-9@:%._+~#=]{1,256}\.[a-zA-Z0-9()]{1,6}\b([-a-zA-Z0-9()@:%_+.~#?&/=]*)(hl=[a-zA-Z0-9]+)/
\* matches somewhere in url
HASHLINK_QUERY_URL_REGEX(url) ==
  \E p \in 1..Len(url) :
    /\ Lit(url, p, <<"h","t","t","p">>)
    /\ \E a \in (p + 4)..Len(url) :
         /\ Run(url, p + 4, a - 1, {"s"})
         /\ Lit(url, a, <<":","/","/">>)
         /\ \E b \in {a + 3} \cup (IF Lit(url, a + 3, <<"w","w","w",".">>) THEN {a + 7} ELSE {}) :
              \E c \in b..Len(url) :
                /\ c - b + 1 <= 256
                /\ Run(url, b, c, HostChars)
                /\ Lit(url, c + 1, <<".">>)
                /\ \E e \in (c + 2)..Len(url) :
                     /\ e - (c + 2) + 1 <= 6
                     /\ Run(url, c + 2, e, TldChars)
                     /\ WordBoundary(url, e + 1)
                     /\ \E f \in (e + 1)..Len(url) :
                          /\ Run(url, e + 1, f - 1, TailChars)
                          /\ Lit(url, f, <<"h","l","=">>)
                          /\ Run(url, f + 3, f + 3, AlNum)

\* variant of containsHashlink: a hashlink only when both patterns match
containsHashlink_BothPatterns(url) == HASHLINK_QUERY_URL_REGEX(url) /\ HASHLINK_URL_ENCODED_REGEX(url)

containsHashlink(url) == ~(~HASHLINK_QUERY_URL_REGEX(url) /\ ~HASHLINK_URL_ENCODED_REGEX(url))

(* ---------------------------------------------------------------------- *)
(* Input data: URIs, credentials, fields and input descriptors             *)
(* ---------------------------------------------------------------------- *)
URI_A == <<"s",":","A">>
URI_B == <<"s",":","B">>
URI_CTX == <<"c",":","1">>
URI_HL == <<"h","l",":","a",":","b">>
URI_HL_QUERY == <<"h","t","t","p",":","/","/","e",".","c","o","?","h","l","=","z">>
URI_HALF_HL == <<"h","l",":","a">>

\* a credential with a list @context, no credentialSchema and a list type
VC_DEGREE ==
  Obj((Key("@context") :> Arr(<<Str(URI_CTX), Str(URI_HL_QUERY)>>))
   @@ (Key("id") :> Str(<<"1">>))
   @@ (Key("credentialSubject") :>
         Obj((Key("degree") :> Obj((Key("type") :> Str(<<"B">>)) @@ (Key("name") :> Str(<<"N">>))))
          @@ (Key("arr") :> Arr(<<Obj(Key("x") :> Str(<<"0">>)),
                                  Obj((Key("x") :> Str(<<"1">>)) @@ (Key("y") :> Str(<<"Y">>)))>>))))
   @@ (Key("type") :> Arr(<<Str(<<"V">>), Str(URI_A)>>)))

\* a credential with a single-string @context, a list of schemas, a string
\* type, a nested array and a claim outside the mandatory fields
VC_NESTED ==
  Obj((Key("@context") :> Str(URI_CTX))
   @@ (Key("id") :> Str(<<"2">>))
   @@ (Key("credentialSchema") :> Arr(<<Obj(Key("id") :> Str(URI_B)), Obj(Key("id") :> Str(URI_HL))>>))
   @@ (Key("credentialSubject") :>
         Obj(Key("m") :> Arr(<<Arr(<<Str(<<"P">>), Str(<<"Q">>)>>)>>)))
   @@ (Key("type") :> Str(URI_B))
   @@ (Key("extra") :> Str(<<"E">>)))

\* a credential without @context, id and type, with a single schema object;
\* the URI in its subject is not one the URI handler looks at
VC_BARE ==
  Obj((Key("credentialSchema") :> Obj(Key("id") :> Str(URI_CTX)))
   @@ (Key("credentialSubject") :>
         Obj((Key("degree") :> Obj(Key("type") :> Str(URI_A)))
          @@ (Key("arr") :> Arr(<<Obj(Key("x") :> Str(<<"2">>)), Obj(Key("x") :> Str(<<"3">>))>>)))))

CredentialCatalog == {VC_DEGREE, VC_NESTED, VC_BARE}

\* path expressions, as segment lists
P_DEGREE_TYPE == <<Root, Key("credentialSubject"), Key("degree"), Key("type")>>
P_DEGREE_NAME == <<Root, Key("credentialSubject"), Key("degree"), Key("name")>>
P_ARR_1_X == <<Root, Key("credentialSubject"), Key("arr"), Idx(1), Key("x")>>
P_ARR_ANY_X == <<Root, Key("credentialSubject"), Key("arr"), Wild, Key("x")>>
P_M_0_1 == <<Root, Key("credentialSubject"), Key("m"), Idx(0), Idx(1)>>
P_EXTRA == <<Root, Key("extra")>>
P_MISSING == <<Root, Key("credentialSubject"), Key("absent")>>

Fld(exprs) == [path |-> exprs]
NoConstraints == [present |-> FALSE, limit_disclosure |-> "absent", fields |-> <<>>]
Constraints(limit, fields) == [present |-> TRUE, limit_disclosure |-> limit, fields |-> fields]
Uris(list) == [x \in DOMAIN list |-> [uri |-> list[x]]]

\* schema and constraints of the input descriptors a definition is made of
DescriptorCatalog ==
  { [schema |-> Uris(<<URI_CTX>>), constraints |-> NoConstraints],
    [schema |-> Uris(<<URI_A, URI_HALF_HL>>),
     constraints |-> Constraints("preferred", <<Fld(<<P_DEGREE_TYPE>>)>>)],
    [schema |-> Uris(<<URI_HL, URI_B>>),
     constraints |-> Constraints("required", <<Fld(<<P_DEGREE_TYPE>>), Fld(<<P_DEGREE_NAME, P_ARR_ANY_X>>)>>)],
    [schema |-> Uris(<<URI_HL_QUERY, URI_HL, URI_HALF_HL>>),
     constraints |-> Constraints("required", <<Fld(<<P_MISSING, P_EXTRA>>), Fld(<<P_M_0_1, P_ARR_1_X>>)>>)] }

DescriptorIds == <<"id_0", "id_1", "id_2", "id_3">>

\* sequences of 1..n distinct elements of set
SeqsUpTo(set, n) ==
  {q \in UNION {[1..m -> set] : m \in 1..n} : \A x, y \in DOMAIN q : x # y => q[x] # q[y]}

Definitions ==
  { [version |-> v, id |-> "pd", input_descriptors |->
       [x \in DOMAIN shapes |-> [id |-> DescriptorIds[x], schema |-> shapes[x].schema,
                                 constraints |-> shapes[x].constraints]]] :
      v \in {"v1", "v2"}, shapes \in SeqsUpTo(DescriptorCatalog, MaxDescriptors) }

(* ---------------------------------------------------------------------- *)
(* State of one evaluation run                                             *)
(* ---------------------------------------------------------------------- *)
VARIABLES
  d,                      \* the presentation definition handed to the handlers
  wrappedVcs,             \* the candidate credentials handed to the handlers
  results,                \* the result log of the evaluation context
  presentationSubmission, \* the submission of the evaluation context
  verifiableCredential,   \* the credential list of the context's presentation
  aliased,                \* the presentation handed to handle is the context's own
  pc,                     \* "idle", or "limitDisclosure" while that handler runs
  ldI,                    \* descriptor index of the running limit-disclosure loop
  ldJ,                    \* credential index of the running limit-disclosure loop
  lenAtCall,              \* length of the iterated credential list when handle was called
  calls,                  \* number of handler calls started
  nextId                  \* source of fresh submission ids

vars == <<d, wrappedVcs, results, presentationSubmission, verifiableCredential,
          aliased, pc, ldI, ldJ, lenAtCall, calls, nextId>>

\* the elements of an array value, in index order
Elements(value) == [x \in 1..Length(value) |-> Get(value, Idx(x - 1))]

(* ---------------------------------------------------------------------- *)
(* Evaluation results                                                      *)
(* ---------------------------------------------------------------------- *)
INFO == "info"
WARN == "warn"
ERROR == "error"
UriEvaluation == "UriEvaluation"
LimitDisclosureEvaluation == "LimitDisclosureEvaluation"

NoPayload == [kind |-> "none", vcContext |-> Undefined, vcCredentialSchema |-> Undefined,
              inputDescriptorsUris |-> <<>>, text |-> "", pathDetails |-> <<>>, fieldPath |-> <<>>]

\* `$.input_descriptors[${idIdx}]`
InputDescriptorPath(idIdx) == <<Root, Key("input_descriptors"), Idx(idIdx)>>
\* `$[${vcIdx}]`
WrappedVcPath(vcIdx) == <<Root, Idx(vcIdx)>>
\* `$.verifiableCredential[${vcIdx}]`
VerifiableCredentialPath(vcIdx) == <<Root, Key("verifiableCredential"), Idx(vcIdx)>>

(* ---------------------------------------------------------------------- *)
(* URI evaluation handler                                                  *)
(* ---------------------------------------------------------------------- *)
createResult(idIdx, vcIdx) ==
  [input_descriptor_path |-> InputDescriptorPath(idIdx),
   verifiable_credential_path |-> WrappedVcPath(vcIdx),
   evaluator |-> UriEvaluation,
   status |-> INFO,
   message |-> "undefined",
   payload |-> NoPayload]

UriPayload(wvc, inputDescriptorsUris) ==
  [NoPayload EXCEPT !.kind = "uris",
                    !.vcContext = Get(wvc, Key("@context")),
                    !.vcCredentialSchema = Get(wvc, Key("credentialSchema")),
                    !.inputDescriptorsUris = inputDescriptorsUris]

createSuccessResultObject(wvc, inputDescriptorsUris, idIdx, vcIdx) ==
  [createResult(idIdx, vcIdx) EXCEPT !.status = INFO,
                                      !.message = "URI_EVALUATION_PASSED",
                                      !.payload = UriPayload(wvc, inputDescriptorsUris)]

createErrorResultObject(wvc, inputDescriptorsUris, idIdx, vcIdx) ==
  [createResult(idIdx, vcIdx) EXCEPT !.status = ERROR,
                                      !.message = "URI_EVALUATION_DIDNT_PASS",
                                      !.payload = UriPayload(wvc, inputDescriptorsUris)]

createWarnResultObject(idIdx, vcIdx) ==
  [createResult(idIdx, vcIdx) EXCEPT !.status = WARN,
                                      !.message = "URI_EVALUATION_DIDNT_PASS",
                                      !.payload = [NoPayload EXCEPT !.kind = "text",
                                        !.text = "INPUT_DESCRIPTOR_CONTEXT_CONTAINS_HASHLINK_VERIFICATION_NOT_SUPPORTED"]]

\* the values pushed for @context, credentialSchema ids and type, in that order
buildVcContextAndSchemaUris(credential) ==
  LET context == Get(credential, Key("@context"))
      schema == Get(credential, Key("credentialSchema"))
      type == Get(credential, Key("type"))
      fromContext == IF IsArray(context) THEN Elements(context) ELSE << context >>
      fromSchema == IF IsArray(schema) /\ Length(schema) > 0
                    THEN [x \in 1..Length(schema) |-> Get(Get(schema, Idx(x - 1)), Key("id"))]
                    ELSE IF Truthy(schema) THEN <<Get(schema, Key("id"))>> ELSE <<>>
      fromType == IF IsArray(type) THEN Elements(type)
                  ELSE IF Truthy(type) THEN << type >> ELSE <<>>
  IN fromContext \o fromSchema \o fromType

\* el === value, for a string el
StrictEqual(el, value) == value.t = "string" /\ value.s = el

\* variant of hasAnyMatch: the URIs are compared whatever the version
hasAnyMatch_NoVersionBranch(verifiableCredentialUris, inputDescriptorsUris, pdVersion) ==
  \E x \in DOMAIN verifiableCredentialUris :
    \E y \in DOMAIN inputDescriptorsUris :
      StrictEqual(inputDescriptorsUris[y], verifiableCredentialUris[x])

\* the hasAnyMatch flag computed by evaluateUris
hasAnyMatch(verifiableCredentialUris, inputDescriptorsUris, pdVersion) ==
  IF pdVersion = "v1"
  THEN \E x \in DOMAIN verifiableCredentialUris :
         \E y \in DOMAIN inputDescriptorsUris :
           StrictEqual(inputDescriptorsUris[y], verifiableCredentialUris[x])
  ELSE TRUE

\* variant of evaluateUris: the outcome is pushed before the warnings
evaluateUris_OutcomeFirst(wvc, verifiableCredentialUris, inputDescriptorsUris, idIdx, vcIdx, pdVersion) ==
  LET hashlinks == IF pdVersion = "v1" THEN SelectSeq(inputDescriptorsUris, containsHashlink) ELSE <<>>
      warnings == [x \in DOMAIN hashlinks |-> createWarnResultObject(idIdx, vcIdx)]
      outcome == IF hasAnyMatch(verifiableCredentialUris, inputDescriptorsUris, pdVersion)
                 THEN createSuccessResultObject(wvc, inputDescriptorsUris, idIdx, vcIdx)
                 ELSE createErrorResultObject(wvc, inputDescriptorsUris, idIdx, vcIdx)
  IN << outcome >> \o warnings

\* the results pushed by one call of evaluateUris
evaluateUris(wvc, verifiableCredentialUris, inputDescriptorsUris, idIdx, vcIdx, pdVersion) ==
  LET hashlinks == IF pdVersion = "v1" THEN SelectSeq(inputDescriptorsUris, containsHashlink) ELSE <<>>
      warnings == [x \in DOMAIN hashlinks |-> createWarnResultObject(idIdx, vcIdx)]
      outcome == IF hasAnyMatch(verifiableCredentialUris, inputDescriptorsUris, pdVersion)
                 THEN createSuccessResultObject(wvc, inputDescriptorsUris, idIdx, vcIdx)
                 ELSE createErrorResultObject(wvc, inputDescriptorsUris, idIdx, vcIdx)
  IN warnings \o << outcome >>

\* the schema URIs handle compares against
descriptorUris(pd, inDesc) ==
  IF pd.version # "v2" THEN [x \in DOMAIN inDesc.schema |-> inDesc.schema[x].uri] ELSE <<>>

RECURSIVE evaluateAll(_, _, _)
\* the results pushed by the two nested forEach loops of handle, from pair
\* number k on (pairs are numbered descriptor-major)
evaluateAll(pd, wvcs, k) ==
  IF Len(wvcs) = 0 \/ k >= Len(pd.input_descriptors) * Len(wvcs) THEN <<>>
  ELSE LET i == k \div Len(wvcs)
           j == k % Len(wvcs)
           inDesc == pd.input_descriptors[i + 1]
           wvc == wvcs[j + 1]
       IN evaluateUris(wvc, buildVcContextAndSchemaUris(wvc), descriptorUris(pd, inDesc), i, j, pd.version)
            \o evaluateAll(pd, wvcs, k + 1)

\* jp.nodes(d, path): the input descriptors a result's path addresses
inputDescriptorNodes(pd, path) ==
  IF /\ Len(path) = 3
     /\ path[1] = Root
     /\ path[2] = Key("input_descriptors")
     /\ path[3].k = "idx"
     /\ path[3].n < Len(pd.input_descriptors)
  THEN <<pd.input_descriptors[path[3].n + 1]>>
  ELSE <<>>

IsInfo(e) == e.status = INFO

IsNotError(e) == e.status # ERROR

\* variant of descriptorMap: every result that is not an ERROR gets an entry
descriptorMap_NotError(pd, log) ==
  LET infos == SelectSeq(log, IsNotError)
  IN [x \in DOMAIN infos |->
        [id |-> inputDescriptorNodes(pd, infos[x].input_descriptor_path)[1].id,
         format |-> "ldp_vc",
         path |-> infos[x].verifiable_credential_path]]

\* the descriptor map handle derives from the result log
descriptorMap(pd, log) ==
  LET infos == SelectSeq(log, IsInfo)
  IN [x \in DOMAIN infos |->
        [id |-> inputDescriptorNodes(pd, infos[x].input_descriptor_path)[1].id,
         format |-> "ldp_vc",
         path |-> infos[x].verifiable_credential_path]]

NoSubmission == [present |-> FALSE, id |-> 0, definition_id |-> "", descriptor_map |-> <<>>]

\* UriEvaluationHandler.handle
UriHandle ==
  /\ pc = "idle"
  /\ calls < MaxCalls
  /\ LET log == results \o evaluateAll(d, wrappedVcs, 0)
     IN /\ results' = log
        /\ presentationSubmission' = [present |-> TRUE,
                                      id |-> nextId,
                                      definition_id |-> d.id,
                                      descriptor_map |-> descriptorMap(d, log)]
  /\ nextId' = nextId + 1
  /\ calls' = calls + 1
  /\ UNCHANGED <<d, wrappedVcs, verifiableCredential, aliased, pc, ldI, ldJ, lenAtCall>>

(* ---------------------------------------------------------------------- *)
(* Path resolver used by the limit-disclosure handler                      *)
(* ---------------------------------------------------------------------- *)
RECURSIVE jpNodes(_, _, _, _)
RECURSIVE jpNodesFrom(_, _, _, _, _)
\* the matches of expr[i..] below value, reached by the path prefix, in
\* document order
jpNodes(value, expr, i, prefix) ==
  IF i > Len(expr) THEN <<[path |-> prefix, value |-> value]>>
  ELSE IF expr[i].k = "wild"
       THEN IF IsArray(value) THEN jpNodesFrom(value, expr, i, prefix, 0) ELSE <<>>
       ELSE IF expr[i] \in DOMAIN value.kv
            THEN jpNodes(value.kv[expr[i]], expr, i + 1, Append(prefix, expr[i]))
            ELSE <<>>
\* the matches of a wildcard step for the elements n, n+1, ... of an array
jpNodesFrom(value, expr, i, prefix, n) ==
  IF n >= Length(value) THEN <<>>
  ELSE (IF Idx(n) \in DOMAIN value.kv
        THEN jpNodes(value.kv[Idx(n)], expr, i + 1, Append(prefix, Idx(n)))
        ELSE <<>>) \o jpNodesFrom(value, expr, i, prefix, n + 1)

RECURSIVE extractFrom(_, _, _)
extractFrom(obj, paths, k) ==
  IF k > Len(paths) THEN <<>>
  ELSE LET found == jpNodes(obj, paths[k], 2, <<Root>>)
       IN IF Len(found) > 0 THEN found ELSE extractFrom(obj, paths, k + 1)
\* JsonPathUtils.extractInputField: the matches of the first expression that
\* has any
extractInputField(obj, paths) == extractFrom(obj, paths, 1)

(* ---------------------------------------------------------------------- *)
(* Limit-disclosure evaluation handler                                     *)
(* ---------------------------------------------------------------------- *)
mandatoryFields == <<"@context", "id", "credentialSchema", "credentialSubject", "type">>

RECURSIVE copyMandatoryFrom(_, _, _)
copyMandatoryFrom(vc, vcToSend, i) ==
  IF i > Len(mandatoryFields) THEN vcToSend
  ELSE copyMandatoryFrom(vc, Put(vcToSend, Key(mandatoryFields[i]), Get(vc, Key(mandatoryFields[i]))), i + 1)
\* the object to send after the mandatory fields were copied into it (the
\* returned key list is not used by the caller)
copyMandatoryFieldsAndDeletePredefinedKeys(vc, vcToSend) == copyMandatoryFrom(vc, vcToSend, 1)

createSuccessResult(idIdx, vcIdx, pathDetails) ==
  [input_descriptor_path |-> InputDescriptorPath(idIdx),
   verifiable_credential_path |-> VerifiableCredentialPath(vcIdx),
   evaluator |-> LimitDisclosureEvaluation,
   status |-> INFO,
   message |-> "added variable in the limit_disclosure to the verifiableCredential",
   payload |-> [NoPayload EXCEPT !.kind = "pathDetails", !.pathDetails = pathDetails]]

\* variant of createMandatoryFieldNotFoundResult: the payload is the first
\* requested path expression only
createMandatoryFieldNotFoundResult_FirstPathOnly(idIdx, vcIdx, path) ==
  [input_descriptor_path |-> InputDescriptorPath(idIdx),
   verifiable_credential_path |-> VerifiableCredentialPath(vcIdx),
   evaluator |-> LimitDisclosureEvaluation,
   status |-> ERROR,
   message |-> "mandatory field not present in the verifiableCredential",
   payload |-> [NoPayload EXCEPT !.kind = "fieldPath", !.fieldPath = <<path[1]>>]]

createMandatoryFieldNotFoundResult(idIdx, vcIdx, path) ==
  [input_descriptor_path |-> InputDescriptorPath(idIdx),
   verifiable_credential_path |-> VerifiableCredentialPath(vcIdx),
   evaluator |-> LimitDisclosureEvaluation,
   status |-> ERROR,
   message |-> "mandatory field not present in the verifiableCredential",
   payload |-> [NoPayload EXCEPT !.kind = "fieldPath", !.fieldPath = path]]

\* the container assigned at the non-terminal segment pathDetails[i]
newContainer(pathDetails, i) ==
  IF IsStringSeg(pathDetails[i]) /\ IsStringSeg(pathDetails[i + 1]) THEN Obj(NoProps)
  ELSE IF IsStringSeg(pathDetails[i]) /\ ~IsStringSeg(pathDetails[i + 1]) THEN Arr(<<Obj(NoProps)>>)
  ELSE Obj(NoProps)

RECURSIVE copyPathFrom(_, _, _, _)
\* the loop of copyResultPathToDestinationCredential from segment i on:
\* objectCursor is the source cursor before the step, cursorInToSend the
\* container being written; the result is that container after the loop
copyPathFrom(pathDetails, objectCursor, cursorInToSend, i) ==
  IF i > Len(pathDetails) THEN cursorInToSend
  ELSE LET next == Get(objectCursor, pathDetails[i])
       IN IF Len(pathDetails) = i
          THEN Put(cursorInToSend, pathDetails[i], next)
          ELSE Put(cursorInToSend, pathDetails[i],
                   copyPathFrom(pathDetails, next, newContainer(pathDetails, i), i + 1))

\* the object to send after one matched path was copied into it
copyResultPathToDestinationCredential(pathDetails, vc, vcToSend) ==
  copyPathFrom(pathDetails, vc, vcToSend, 2)

RECURSIVE determineNecessaryPaths(_, _, _, _, _, _, _)
\* the loop over the fields from field k on: the object to send and the log
determineNecessaryPaths(vc, vcToSend, fields, idIdx, vcIdx, log, k) ==
  IF k > Len(fields) THEN [vcToSend |-> vcToSend, results |-> log]
  ELSE LET result == extractInputField(vc, fields[k].path)
       IN IF Len(result) > 0
          THEN determineNecessaryPaths(vc,
                 copyResultPathToDestinationCredential(result[1].path, vc, vcToSend),
                 fields, idIdx, vcIdx,
                 Append(log, createSuccessResult(idIdx, vcIdx, result[1].path)), k + 1)
          ELSE determineNecessaryPaths(vc, vcToSend, fields, idIdx, vcIdx,
                 Append(log, createMandatoryFieldNotFoundResult(idIdx, vcIdx, fields[k].path)), k + 1)

\* variant of copyModifiedVerifiableCredentialToExisting: the object is
\* pushed once when any entry has the descriptor's id
copyModifiedVerifiableCredentialToExisting_Once(list, vcToSend, inputDescriptorId) ==
  LET map == presentationSubmission.descriptor_map
      hits == {x \in DOMAIN map : map[x].id = inputDescriptorId}
      base == IF list.present THEN list.items ELSE <<>>
  IN [present |-> TRUE,
      items |-> IF hits = {} THEN base ELSE Append(base, vcToSend)]

\* the context's credential list after copyModifiedVerifiableCredentialToExisting
copyModifiedVerifiableCredentialToExisting(list, vcToSend, inputDescriptorId) ==
  LET map == presentationSubmission.descriptor_map
      hits == {x \in DOMAIN map : map[x].id = inputDescriptorId}
      base == IF list.present THEN list.items ELSE <<>>
  IN [present |-> TRUE,
      items |-> base \o [x \in 1..Cardinality(hits) |-> vcToSend]]

\* the credential list handle iterates (the argument p of handle)
IteratedList == IF aliased THEN verifiableCredential.items ELSE wrappedVcs

\* the condition under which handle enforces limit disclosure for a descriptor
IsRequired(inDesc) ==
  /\ inDesc.constraints.present
  /\ inDesc.constraints.limit_disclosure # "absent"
  /\ inDesc.constraints.limit_disclosure = "required"

CurrentDescriptor == d.input_descriptors[ldI + 1]

\* LimitDisclosureEvaluationHandler.handle is called
LimitDisclosureCall ==
  /\ pc = "idle"
  /\ calls < MaxCalls
  /\ pc' = "limitDisclosure"
  /\ ldI' = 0
  /\ ldJ' = 0
  /\ lenAtCall' = Len(IteratedList)
  /\ calls' = calls + 1
  /\ UNCHANGED <<d, wrappedVcs, results, presentationSubmission, verifiableCredential, aliased, nextId>>

\* handle: the descriptor is not one to enforce, on to the next descriptor
LimitDisclosureSkip ==
  /\ pc = "limitDisclosure"
  /\ ldI < Len(d.input_descriptors)
  /\ ~IsRequired(CurrentDescriptor)
  /\ ldI' = ldI + 1
  /\ ldJ' = 0
  /\ UNCHANGED <<d, wrappedVcs, results, presentationSubmission, verifiableCredential,
                 aliased, pc, lenAtCall, calls, nextId>>

\* limitDisclosureShouldBeEnforced: one iteration of the loop over the credentials
LimitDisclosureCredential ==
  /\ pc = "limitDisclosure"
  /\ ldI < Len(d.input_descriptors)
  /\ IsRequired(CurrentDescriptor)
  /\ ldJ < Len(IteratedList)
  /\ LET vc == IteratedList[ldJ + 1]
         copied == copyMandatoryFieldsAndDeletePredefinedKeys(vc, Obj(NoProps))
         built == determineNecessaryPaths(vc, copied, CurrentDescriptor.constraints.fields,
                                          ldI, ldJ, results, 1)
         list == IF presentationSubmission.present
                 THEN copyModifiedVerifiableCredentialToExisting(verifiableCredential,
                        built.vcToSend, CurrentDescriptor.id)
                 ELSE verifiableCredential
     IN /\ Len(list.items) <= MaxList
        /\ results' = built.results
        /\ verifiableCredential' = list
  /\ ldJ' = ldJ + 1
  /\ UNCHANGED <<d, wrappedVcs, presentationSubmission, aliased, pc, ldI, lenAtCall, calls, nextId>>

\* limitDisclosureShouldBeEnforced returns: the loop over the credentials is over
LimitDisclosureNextDescriptor ==
  /\ pc = "limitDisclosure"
  /\ ldI < Len(d.input_descriptors)
  /\ IsRequired(CurrentDescriptor)
  /\ ldJ >= Len(IteratedList)
  /\ ldI' = ldI + 1
  /\ ldJ' = 0
  /\ UNCHANGED <<d, wrappedVcs, results, presentationSubmission, verifiableCredential,
                 aliased, pc, lenAtCall, calls, nextId>>

\* handle returns: the loop over the descriptors is over
LimitDisclosureReturn ==
  /\ pc = "limitDisclosure"
  /\ ldI >= Len(d.input_descriptors)
  /\ pc' = "idle"
  /\ UNCHANGED <<d, wrappedVcs, results, presentationSubmission, verifiableCredential,
                 aliased, ldI, ldJ, lenAtCall, calls, nextId>>

(* ---------------------------------------------------------------------- *)
(* The evaluation run                                                      *)
(* ---------------------------------------------------------------------- *)
Init ==
  /\ d \in Definitions
  /\ wrappedVcs \in SeqsUpTo(CredentialCatalog, MaxCreds)
  /\ results = <<>>
  /\ presentationSubmission = NoSubmission
  /\ aliased \in BOOLEAN
  /\ verifiableCredential \in
       {[present |-> TRUE, items |-> wrappedVcs]} \cup
       (IF aliased THEN {} ELSE {[present |-> FALSE, items |-> <<>>]})
  /\ pc = "idle"
  /\ ldI = 0
  /\ ldJ = 0
  /\ lenAtCall = 0
  /\ calls = 0
  /\ nextId = 1

Next ==
  \/ UriHandle
  \/ LimitDisclosureCall
  \/ LimitDisclosureSkip
  \/ LimitDisclosureCredential
  \/ LimitDisclosureNextDescriptor
  \/ LimitDisclosureReturn

Spec == Init /\ [][Next]_vars

(* ---------------------------------------------------------------------- *)
(* Vocabulary of the properties                                            *)
(* ---------------------------------------------------------------------- *)
\* the step is one whole call of the URI handler's handle
UriStep == pc = "idle" /\ pc' = "idle" /\ calls' = calls + 1
\* the step is one iteration of the limit-disclosure loop over the credentials
CredentialStep == pc = "limitDisclosure" /\ pc' = "limitDisclosure" /\ ldJ' = ldJ + 1
\* the results the step appended to the log
Appended == SubSeq(results', Len(results) + 1, Len(results'))
\* the result is addressed to descriptor i and credential j (either path form)
Addresses(e, i, j) ==
  /\ e.input_descriptor_path = InputDescriptorPath(i)
  /\ e.verifiable_credential_path \in {WrappedVcPath(j), VerifiableCredentialPath(j)}
DescriptorIndices == 0..(Len(d.input_descriptors) - 1)
CredentialIndices == 0..(Len(wrappedVcs) - 1)
\* the strings among a value or, for an array, among its elements
StringsOf(value) ==
  LET vals == IF value.t = "array" THEN {value.kv[g] : g \in DOMAIN value.kv} ELSE {value}
  IN {v.s : v \in {w \in vals : w.t = "string"}}
\* the ids of a credentialSchema value (one object or a list of objects)
SchemaIdsOf(value) ==
  LET objs == IF value.t = "array" THEN {value.kv[g] : g \in DOMAIN value.kv} ELSE {value}
  IN UNION {StringsOf(Get(o, Key("id"))) : o \in {w \in objs : w.t = "object"}}
\* the URIs a credential carries in @context, credentialSchema ids and type
CredentialUriSet(credential) ==
  StringsOf(Get(credential, Key("@context")))
    \cup SchemaIdsOf(Get(credential, Key("credentialSchema")))
    \cup StringsOf(Get(credential, Key("type")))
\* the schema URIs descriptor i declares
DeclaredUris(i) == {d.input_descriptors[i + 1].schema[y].uri : y \in DOMAIN d.input_descriptors[i + 1].schema}
\* credential j shares a URI with descriptor i
Intersects(i, j) == CredentialUriSet(wrappedVcs[j + 1]) \cap DeclaredUris(i) # {}
\* the hashlinks among the URIs of the input data
HashlinkUris == {URI_HL, URI_HL_QUERY}

(* ---------------------------------------------------------------------- *)
(* C1                                                                      *)
(* ---------------------------------------------------------------------- *)
\* C1: one call of the URI handler's handle appends, for every (descriptor i,
\* credential j) pair, exactly one INFO-or-ERROR result addressed to the pair;
\* it is INFO for a v2 definition, and for a v1 definition it is INFO exactly
\* when a URI of the credential equals a schema URI of the descriptor.
C1_OneOutcomePerPair ==
  [][UriStep =>
       \A i \in DescriptorIndices : \A j \in CredentialIndices :
         LET outcomes == {x \in DOMAIN Appended :
                            /\ Addresses(Appended[x], i, j)
                            /\ Appended[x].status \in {INFO, ERROR}}
         IN /\ Cardinality(outcomes) = 1
            /\ \A x \in outcomes :
                 /\ Appended[x].verifiable_credential_path = WrappedVcPath(j)
                 /\ (Appended[x].status = INFO) <=> (d.version = "v2" \/ Intersects(i, j))]_vars

\* a v1 run whose log holds a passed and a failed URI outcome
C1_Witness ==
  /\ d.version = "v1"
  /\ \E x, y \in DOMAIN results :
       /\ results[x].evaluator = UriEvaluation /\ results[x].status = INFO
       /\ results[y].evaluator = UriEvaluation /\ results[y].status = ERROR

(* ---------------------------------------------------------------------- *)
(* C2                                                                      *)
(* ---------------------------------------------------------------------- *)
\* C2: for a v1 definition, one call of the URI handler's handle appends for
\* every pair as many WARN results as the descriptor declares hashlink URIs,
\* next to the pair's outcome, and the outcome is INFO exactly when the
\* credential and the descriptor share a URI, hashlinks or not.
C2_OneWarnPerHashlink ==
  [][(UriStep /\ d.version = "v1") =>
       \A i \in DescriptorIndices : \A j \in CredentialIndices :
         LET mine == {x \in DOMAIN Appended : Addresses(Appended[x], i, j)}
             warns == {x \in mine : Appended[x].status = WARN}
             schema == d.input_descriptors[i + 1].schema
             declared == {y \in DOMAIN schema : schema[y].uri \in HashlinkUris}
         IN /\ Cardinality(warns) = Cardinality(declared)
            /\ Cardinality(mine) = Cardinality(declared) + 1
            /\ (\E x \in mine : Appended[x].status = INFO) <=> Intersects(i, j)
            /\ (\E x \in mine : Appended[x].status = ERROR) <=> ~Intersects(i, j)]_vars

\* a v1 run in which a pair got hashlink warnings and a passed outcome, and
\* another pair got warnings and a failed outcome
C2_Witness ==
  /\ d.version = "v1"
  /\ \E w, x \in DOMAIN results :
       /\ results[w].status = WARN /\ results[x].status = INFO
       /\ results[x].evaluator = UriEvaluation
       /\ results[w].input_descriptor_path = results[x].input_descriptor_path
       /\ results[w].verifiable_credential_path = results[x].verifiable_credential_path
  /\ \E w, x \in DOMAIN results :
       /\ results[w].status = WARN /\ results[x].status = ERROR
       /\ results[x].evaluator = UriEvaluation
       /\ results[w].input_descriptor_path = results[x].input_descriptor_path
       /\ results[w].verifiable_credential_path = results[x].verifiable_credential_path

(* ---------------------------------------------------------------------- *)
(* C3                                                                      *)
(* ---------------------------------------------------------------------- *)
\* C3: when the URI handler's handle returns, the submission is a new one
\* (new id, definition_id of the definition) whose descriptor_map has one
\* entry per INFO result of the whole log, in log order: path of the result,
\* id of the descriptor the result addresses, format "ldp_vc".
C3_SubmissionFromWholeLog ==
  [][UriStep =>
       LET infos == {x \in DOMAIN results' : results'[x].status = INFO}
           map == presentationSubmission'.descriptor_map
           \* the position in the log of the k-th INFO result
           At(k) == CHOOSE x \in infos : Cardinality({y \in infos : y <= x}) = k
       IN /\ presentationSubmission'.present
          /\ presentationSubmission'.id # presentationSubmission.id
          /\ presentationSubmission'.definition_id = d.id
          /\ Len(map) = Cardinality(infos)
          /\ \A k \in DOMAIN map :
               /\ map[k].path = results'[At(k)].verifiable_credential_path
               /\ map[k].format = "ldp_vc"
               /\ map[k].id = d.input_descriptors[results'[At(k)].input_descriptor_path[3].n + 1].id]_vars

\* a submission whose map has an entry for a limit-disclosure INFO result,
\* computed from a log that also holds results that are not INFO
C3_Witness ==
  /\ presentationSubmission.present
  /\ \E k \in DOMAIN presentationSubmission.descriptor_map :
       Len(presentationSubmission.descriptor_map[k].path) = 3
  /\ \E k \in DOMAIN presentationSubmission.descriptor_map :
       Len(presentationSubmission.descriptor_map[k].path) = 2
  /\ \E x \in DOMAIN results : results[x].status = ERROR
  /\ \E x \in DOMAIN results : results[x].status = WARN

(* ---------------------------------------------------------------------- *)
(* C4                                                                      *)
(* ---------------------------------------------------------------------- *)
\* C4: the descriptor_map the URI handler's handle leaves has one entry per
\* INFO result that this call of the URI handler logged, and no entry for an
\* INFO result of the limit-disclosure handler or of an earlier handler call.
C4_OnlyOwnInfoResults ==
  [][UriStep =>
       LET own == {x \in DOMAIN Appended :
                     Appended[x].status = INFO /\ Appended[x].evaluator = UriEvaluation}
           map == presentationSubmission'.descriptor_map
       IN /\ Len(map) = Cardinality(own)
          /\ \A k \in DOMAIN map : Len(map[k].path) = 2]_vars

(* ---------------------------------------------------------------------- *)
(* Vocabulary of the limit-disclosure properties                           *)
(* ---------------------------------------------------------------------- *)
\* the credential list of the context's presentation, empty while absent
Items(list) == IF list.present THEN list.items ELSE <<>>
\* the credential the iteration at hand processes, and the Fields it applies
SourceCredential == IteratedList[ldJ + 1]
CurrentFields == CurrentDescriptor.constraints.fields
\* the step processed a credential that was in the list when handle was
\* called and appended at least one disclosed object to the credential list
Disclosed ==
  /\ CredentialStep
  /\ ldJ < lenAtCall
  /\ Len(Items(verifiableCredential')) > Len(Items(verifiableCredential))
\* the disclosed object the step appended last
DisclosedObject == Items(verifiableCredential')[Len(Items(verifiableCredential'))]
\* before is a prefix of after
IsPrefix(before, after) == Len(before) <= Len(after) /\ SubSeq(after, 1, Len(before)) = before
\* the descriptor_map entries for the descriptor at hand
EntriesForCurrent ==
  IF presentationSubmission.present
  THEN {k \in DOMAIN presentationSubmission.descriptor_map :
          presentationSubmission.descriptor_map[k].id = CurrentDescriptor.id}
  ELSE {}
\* a concrete path is a match of a path expression
Matches(path, expr) ==
  /\ Len(path) = Len(expr)
  /\ \A x \in DOMAIN path : expr[x] = path[x] \/ (expr[x] = Wild /\ path[x].k = "idx")

(* ---------------------------------------------------------------------- *)
(* C5                                                                      *)
(* ---------------------------------------------------------------------- *)
\* C5: the disclosed object has the five mandatory keys and, for every Field
\* that resolves, the resolved value at the Field's first matched path; below
\* an ancestor of a matched path it holds no source claim that is not on a
\* matched path.
C5_DisclosedObjectHoldsEveryField ==
  [][Disclosed =>
       LET out == DisclosedObject
           found == [k \in DOMAIN CurrentFields |-> extractInputField(SourceCredential, CurrentFields[k].path)]
           resolved == {k \in DOMAIN CurrentFields : Len(found[k]) > 0}
           PathOf(k) == found[k][1].path
       IN /\ \A x \in DOMAIN mandatoryFields : Key(mandatoryFields[x]) \in DOMAIN out.kv
          /\ \A k \in resolved : GetPath(out, PathOf(k), 2) = found[k][1].value
          /\ \A k \in resolved : \A q \in 2..(Len(PathOf(k)) - 1) :
               LET prefix == SubSeq(PathOf(k), 1, q)
                   kept == GetPath(out, prefix, 2)
                   source == GetPath(SourceCredential, prefix, 2)
               IN \A seg \in DOMAIN kept.kv :
                    \/ \E k2 \in resolved :
                         /\ Len(PathOf(k2)) > q
                         /\ SubSeq(PathOf(k2), 1, q + 1) = Append(prefix, seg)
                    \/ seg \notin DOMAIN source.kv
                    \/ kept.kv[seg] # source.kv[seg]]_vars

(* ---------------------------------------------------------------------- *)
(* C6                                                                      *)
(* ---------------------------------------------------------------------- *)
\* C6: one iteration of the limit-disclosure handler for a Required
\* descriptor i and a credential j appends exactly one result per Field of
\* the descriptor, in Field order, addressed to i and j: an ERROR whose
\* payload is the Field's requested path list when no path expression of the
\* Field resolves, an INFO whose payload is the first matched path otherwise.
C6_OneResultPerField ==
  [][CredentialStep =>
       /\ Len(Appended) = Len(CurrentFields)
       /\ \A k \in DOMAIN Appended :
            LET found == extractInputField(SourceCredential, CurrentFields[k].path)
                noneResolves == \A x \in DOMAIN CurrentFields[k].path :
                                  jpNodes(SourceCredential, CurrentFields[k].path[x], 2, <<Root>>) = <<>>
            IN /\ Appended[k].input_descriptor_path = InputDescriptorPath(ldI)
               /\ Appended[k].verifiable_credential_path = VerifiableCredentialPath(ldJ)
               /\ Appended[k].evaluator = LimitDisclosureEvaluation
               /\ noneResolves => /\ Appended[k].status = ERROR
                                  /\ Appended[k].payload.kind = "fieldPath"
                                  /\ Appended[k].payload.fieldPath = CurrentFields[k].path
               /\ ~noneResolves => /\ Appended[k].status = INFO
                                   /\ Appended[k].payload.kind = "pathDetails"
                                   /\ Appended[k].payload.pathDetails = found[1].path]_vars

\* the log holds, for one descriptor and credential, the ERROR of a Field
\* that did not resolve directly followed by the INFO of the next Field
C6_Witness ==
  \E x \in DOMAIN results :
    /\ x + 1 \in DOMAIN results
    /\ results[x].evaluator = LimitDisclosureEvaluation
    /\ results[x].status = ERROR
    /\ Len(results[x].payload.fieldPath) > 1
    /\ results[x + 1].evaluator = LimitDisclosureEvaluation
    /\ results[x + 1].status = INFO
    /\ results[x + 1].input_descriptor_path = results[x].input_descriptor_path
    /\ results[x + 1].verifiable_credential_path = results[x].verifiable_credential_path

(* ---------------------------------------------------------------------- *)
(* C7                                                                      *)
(* ---------------------------------------------------------------------- *)
\* C7: every step leaves the log as it was and only appends to it; a call of
\* the URI handler appends descriptor-major, then by credential, the WARNs
\* of a pair before its outcome; the limit-disclosure handler walks the
\* descriptors and credentials in increasing order and appends the results
\* of one credential in Field order.
C7_LogIsAppendOnlyAndOrdered ==
  [][/\ IsPrefix(results, results')
     /\ UriStep =>
          \A x, y \in DOMAIN Appended :
            x < y =>
              LET Rank(e) == e.input_descriptor_path[3].n * Len(wrappedVcs) + e.verifiable_credential_path[2].n
              IN \/ Rank(Appended[x]) < Rank(Appended[y])
                 \/ (Rank(Appended[x]) = Rank(Appended[y]) /\ Appended[x].status = WARN)
     /\ CredentialStep =>
          /\ Len(Appended) = Len(CurrentFields)
          /\ \A k \in DOMAIN Appended :
               /\ Addresses(Appended[k], ldI, ldJ)
               /\ \/ Appended[k].payload.fieldPath = CurrentFields[k].path
                  \/ \E x \in DOMAIN CurrentFields[k].path :
                       Matches(Appended[k].payload.pathDetails, CurrentFields[k].path[x])
     /\ (pc = "limitDisclosure" /\ pc' = "limitDisclosure") =>
          \/ ldI' > ldI
          \/ (ldI' = ldI /\ ldJ' >= ldJ)
     /\ (pc = "limitDisclosure" /\ ~CredentialStep) => results' = results]_vars

\* a log in which hashlink warnings, URI outcomes and limit-disclosure
\* results of two credentials follow one another
C7_Witness ==
  /\ \E w, x \in DOMAIN results :
       /\ w < x
       /\ results[w].status = WARN
       /\ results[x].evaluator = UriEvaluation /\ results[x].status # WARN
       /\ \E y, z \in DOMAIN results :
            /\ x < y /\ y < z
            /\ results[y].evaluator = LimitDisclosureEvaluation
            /\ results[z].evaluator = LimitDisclosureEvaluation
            /\ results[y].verifiable_credential_path # results[z].verifiable_credential_path

(* ---------------------------------------------------------------------- *)
(* C8                                                                      *)
(* ---------------------------------------------------------------------- *)
\* C8: a running call of the limit-disclosure handler's handle processes only
\* credentials that were in the iterated list when handle was called (so the
\* loop over the credentials ends after that many iterations).
C8_OnlyCredentialsPresentAtCall ==
  (/\ pc = "limitDisclosure"
   /\ ldI < Len(d.input_descriptors)
   /\ IsRequired(CurrentDescriptor)
   /\ ldJ < Len(IteratedList)) => ldJ < lenAtCall

(* ---------------------------------------------------------------------- *)
(* C9                                                                      *)
(* ---------------------------------------------------------------------- *)
\* what every step of a limit-disclosure call does to the credential list:
\* it only appends, and an iteration for a Required descriptor appends the
\* disclosed object once per descriptor_map entry with the descriptor's id
AppendsPerEntry ==
  /\ IsPrefix(Items(verifiableCredential), Items(verifiableCredential'))
  /\ verifiableCredential.present => verifiableCredential'.present
  /\ ~CredentialStep => verifiableCredential' = verifiableCredential
  /\ CredentialStep =>
       /\ Len(Items(verifiableCredential')) = Len(Items(verifiableCredential)) + Cardinality(EntriesForCurrent)
       /\ \A x \in (Len(Items(verifiableCredential)) + 1)..Len(Items(verifiableCredential')) :
            /\ Items(verifiableCredential')[x] = DisclosedObject
            /\ \A m \in DOMAIN mandatoryFields :
                 Key(mandatoryFields[m]) \in DOMAIN Items(verifiableCredential')[x].kv

\* C9 as stated: a limit-disclosure call only appends to the credential list,
\* once per matching descriptor_map entry; without a Submission, or for a
\* descriptor that is not Required, the list is unchanged and nothing is
\* logged for the descriptor.
C9_Original ==
  [][(pc = "limitDisclosure" /\ ldI < Len(d.input_descriptors)) =>
       /\ AppendsPerEntry
       /\ (~presentationSubmission.present \/ ~IsRequired(CurrentDescriptor)) =>
            /\ verifiableCredential' = verifiableCredential
            /\ results' = results]_vars

\* C9 as amended: a limit-disclosure call only appends to the credential
\* list, once per matching descriptor_map entry; without a Submission the
\* list is unchanged (the Fields of a Required descriptor are still logged);
\* for a descriptor that is not Required the list is unchanged and nothing
\* is logged.
C9_AppendOnlyPerEntry ==
  [][(pc = "limitDisclosure" /\ ldI < Len(d.input_descriptors)) =>
       /\ AppendsPerEntry
       /\ ~presentationSubmission.present => verifiableCredential' = verifiableCredential
       /\ ~IsRequired(CurrentDescriptor) =>
            /\ verifiableCredential' = verifiableCredential
            /\ results' = results]_vars

\* the credential list holds the candidates in their places followed by two
\* copies of one disclosed object (two descriptor_map entries for one
\* descriptor), after a call that skipped a descriptor that is not Required
C9_Witness ==
  /\ verifiableCredential.present
  /\ \E x \in DOMAIN verifiableCredential.items :
       /\ x + 1 \in DOMAIN verifiableCredential.items
       /\ verifiableCredential.items[x] \notin CredentialCatalog
       /\ verifiableCredential.items[x + 1] = verifiableCredential.items[x]
  /\ \E i \in DOMAIN d.input_descriptors : ~IsRequired(d.input_descriptors[i])
  /\ \E x \in DOMAIN results : results[x].evaluator = LimitDisclosureEvaluation

(* ---------------------------------------------------------------------- *)
(* C10                                                                     *)
(* ---------------------------------------------------------------------- *)
\* C10: along the matched path of the last Field copied into the disclosed
\* object, the container at every non-terminal segment after the root is an
\* object when the next segment is a string key and a list of exactly one
\* element otherwise.
C10_ContainerFollowsNextSegment ==
  [][(Disclosed /\ Len(CurrentFields) > 0) =>
       LET found == extractInputField(SourceCredential, CurrentFields[Len(CurrentFields)].path)
       IN Len(found) > 0 =>
            \A q \in 2..(Len(found[1].path) - 1) :
              LET created == GetPath(DisclosedObject, SubSeq(found[1].path, 1, q), 2)
              IN IF IsStringSeg(found[1].path[q + 1])
                 THEN created.t = "object"
                 ELSE created.t = "array" /\ Length(created) = 1]_vars

====
